---- MODULE Spec2Model ----
(***************************************************************************)
(* Mystery Mosaic generator (src/App.py): the fixed palette and its        *)
(* nearest-colour lookup, the integer cell grid, the cover-fit             *)
(* normalisation geometry, the page generation pipeline and the Streamlit  *)
(* "Generate Mosaic" handler.                                              *)
(***************************************************************************)
EXTENDS Integers, Sequences, FiniteSets, TLC

\* ---------------------------------------------------------------- CONFIG

PAGE_WIDTH == 2550

PAGE_HEIGHT == 3300

\* The palette in insertion (dict iteration) order: <<key, <<r, g, b>>>>.
PALETTE ==
  << <<"1", <<0, 0, 0>>>>,       <<"2", <<64, 64, 64>>>>,    <<"3", <<192, 192, 192>>>>,
     <<"4", <<101, 67, 33>>>>,   <<"5", <<139, 69, 19>>>>,   <<"6", <<210, 180, 140>>>>,
     <<"7", <<222, 184, 135>>>>, <<"8", <<255, 253, 208>>>>, <<"9", <<139, 0, 0>>>>,
     <<"A", <<255, 0, 0>>>>,     <<"B", <<255, 69, 0>>>>,    <<"C", <<255, 140, 0>>>>,
     <<"D", <<255, 255, 0>>>>,   <<"E", <<154, 205, 50>>>>,  <<"F", <<128, 128, 0>>>>,
     <<"G", <<0, 128, 0>>>>,     <<"H", <<0, 255, 128>>>>,   <<"I", <<0, 100, 0>>>>,
     <<"J", <<0, 0, 139>>>>,     <<"K", <<0, 0, 255>>>>,     <<"L", <<135, 206, 235>>>>,
     <<"M", <<173, 216, 230>>>>, <<"N", <<128, 0, 128>>>>,   <<"O", <<238, 130, 238>>>>,
     <<"P", <<255, 0, 255>>>>,   <<"Q", <<230, 230, 250>>>>, <<"R", <<231, 84, 128>>>>,
     <<"S", <<255, 192, 203>>>> >>

\* PALETTE[label] (the dict lookup of line 167).
PaletteColor(label) ==
  PALETTE[CHOOSE i \in 1..Len(PALETTE) : PALETTE[i][1] = label][2]

PaletteKeys == {PALETTE[i][1] : i \in 1..Len(PALETTE)}

WHITE == <<255, 255, 255>>

\* Python's None for best_label / font / an image not yet built.
None == "None"

\* Python's None for best_dist (every real distance is >= 0).
NoDist == -1

\* ------------------------------------------------------------- UTILITIES

\* A slip in line 44: dr taken from the green channel, as dg is.
SqDistGreenTwice(v, rgb) ==
  LET dr == v[2] - rgb[2]
      dg == v[2] - rgb[2]
      db == v[3] - rgb[3]
  IN  dr * dr + dg * dg + db * db

\* dist = dr*dr + dg*dg + db*db (lines 44-47).
SqDist(v, rgb) ==
  LET dr == v[1] - rgb[1]
      dg == v[2] - rgb[2]
      db == v[3] - rgb[3]
  IN  dr * dr + dg * dg + db * db

\* A plausible slip in the comparison of line 48: "<=" lets the last minimum win.
BetterLastWins(dist, best_dist) == best_dist = NoDist \/ dist <= best_dist

\* The test of line 48: best_dist is None or dist < best_dist.
Better(dist, best_dist) == best_dist = NoDist \/ dist < best_dist

\* The loop of lines 43-50 from entry i on, carrying (best_label, best_dist).
RECURSIVE ScanPalette(_, _, _, _)
ScanPalette(rgb, i, best_label, best_dist) ==
  IF i > Len(PALETTE) THEN best_label
  ELSE LET dist == SqDist(PALETTE[i][2], rgb)
       IN  IF Better(dist, best_dist)
           THEN ScanPalette(rgb, i + 1, PALETTE[i][1], dist)
           ELSE ScanPalette(rgb, i + 1, best_label, best_dist)

nearest_palette_label(rgb) == ScanPalette(rgb, 1, None, NoDist)

\* The exception compute_cell_grid raises: ValueError(msg).
GridError(msg) == [error |-> msg, cell_w |-> 0, cols |-> 0, rows |-> 0]

\* A slip in line 71: the rows taken from the page's width.
compute_cell_grid_rows_by_width(cols_arg) ==
  IF cols_arg < 1
  THEN GridError("grid_cols must be >= 1")
  ELSE LET cw == PAGE_WIDTH \div cols_arg
       IN  IF cw < 1
           THEN GridError("grid_cols too large for page width")
           ELSE LET grid_rows == PAGE_WIDTH \div cw
                IN  IF grid_rows < 1
                    THEN GridError("computed grid rows < 1; reduce grid_cols")
                    ELSE [error |-> None, cell_w |-> cw,
                          cols |-> cols_arg, rows |-> grid_rows]

\* A slip in line 69: "<=" rejects the one-pixel cells too.
compute_cell_grid_no_unit_cells(cols_arg) ==
  IF cols_arg < 1
  THEN GridError("grid_cols must be >= 1")
  ELSE LET cw == PAGE_WIDTH \div cols_arg
       IN  IF cw <= 1
           THEN GridError("grid_cols too large for page width")
           ELSE LET grid_rows == PAGE_HEIGHT \div cw
                IN  IF grid_rows < 1
                    THEN GridError("computed grid rows < 1; reduce grid_cols")
                    ELSE [error |-> None, cell_w |-> cw,
                          cols |-> cols_arg, rows |-> grid_rows]

\* compute_cell_grid (lines 64-74): the raise of lines 67, 70 or 73, or the
\* triple of line 74 (error = None).
compute_cell_grid(cols_arg) ==
  IF cols_arg < 1
  THEN GridError("grid_cols must be >= 1")
  ELSE LET cw == PAGE_WIDTH \div cols_arg
       IN  IF cw < 1
           THEN GridError("grid_cols too large for page width")
           ELSE LET grid_rows == PAGE_HEIGHT \div cw
                IN  IF grid_rows < 1
                    THEN GridError("computed grid rows < 1; reduce grid_cols")
                    ELSE [error |-> None, cell_w |-> cw,
                          cols |-> cols_arg, rows |-> grid_rows]

Max2(a, b) == IF a >= b THEN a ELSE b

Min2(a, b) == IF a <= b THEN a ELSE b

\* int(round(num / den)) for num >= 0, den > 0, where num / den stands for the
\* double the code computes. Away from a half the double rounds as the exact
\* quotient does; at an exact half the double product may sit on either side
\* of it (or on it, where round() goes to the even neighbour), so both
\* neighbours are outcomes.
RoundOutcomes(num, den) ==
  LET fl  == num \div den
      rem == num % den
  IN  IF 2 * rem < den THEN {fl}
      ELSE IF 2 * rem > den THEN {fl + 1}
      ELSE {fl, fl + 1}

\* A slip in line 56: min() instead of max() is contain-fit, not cover-fit.
ScaleContain(src_w, src_h) ==
  IF PAGE_WIDTH * src_h <= PAGE_HEIGHT * src_w
  THEN <<PAGE_WIDTH, src_w>> ELSE <<PAGE_HEIGHT, src_h>>

\* scale = max(PAGE_WIDTH / src_w, PAGE_HEIGHT / src_h) (line 56) as the
\* fraction <<numerator, denominator>>.
Scale(src_w, src_h) ==
  IF PAGE_WIDTH * src_h >= PAGE_HEIGHT * src_w
  THEN <<PAGE_WIDTH, src_w>> ELSE <<PAGE_HEIGHT, src_h>>

\* Lines 55-62 of resize_and_crop_to_page: the resized size, the crop box
\* (left, top, right, bottom) and the size of the image crop() returns.
ResizeGeometry(src_w, src_h) ==
  LET scale == Scale(src_w, src_h)
  IN  { LET left == (nw - PAGE_WIDTH) \div 2
            top  == (nh - PAGE_HEIGHT) \div 2
        IN  [new_w |-> nw, new_h |-> nh, left |-> left, top |-> top,
             right |-> left + PAGE_WIDTH, bottom |-> top + PAGE_HEIGHT,
             out_w |-> (left + PAGE_WIDTH) - left,
             out_h |-> (top + PAGE_HEIGHT) - top] :
        nw \in {Max2(1, v) : v \in RoundOutcomes(src_w * scale[1], scale[2])},
        nh \in {Max2(1, v) : v \in RoundOutcomes(src_h * scale[1], scale[2])} }

\* ------------------------------------------------------------ raster images

\* An RGB raster of w x h pixels: a background colour (Image.new) and the
\* rectangles drawn on it since, in drawing order. Every image the pipeline
\* builds is piecewise constant, so this holds each pixel exactly.
NewImage(w, h, color) == [w |-> w, h |-> h, bg |-> color, rects |-> <<>>]

\* No image yet.
NoImage == NewImage(0, 0, <<0, 0, 0>>)

\* ImageDraw.rectangle([x0, y0, x1, y1], fill): both corners are inclusive.
DrawRectangle(img, x0, y0, x1, y1, fill) ==
  [img EXCEPT !.rects =
     Append(@, [x0 |-> x0, y0 |-> y0, x1 |-> x1, y1 |-> y1, fill |-> fill])]

InRect(rc, x, y) == rc.x0 <= x /\ x <= rc.x1 /\ rc.y0 <= y /\ y <= rc.y1

\* The colour of pixel (x, y): the last rectangle drawn over it, else the
\* background.
PixelAt(img, x, y) ==
  LET hits == {i \in 1..Len(img.rects) : InRect(img.rects[i], x, y)}
  IN  IF hits = {} THEN img.bg
      ELSE img.rects[CHOOSE i \in hits : \A j \in hits : j <= i].fill

\* The smallest member of S above v.
NextIn(S, v) == CHOOSE u \in S : u > v /\ \A t \in S : t > v => u <= t

\* The pixels x in xa..xb-1, y in ya..yb-1 of img, cut at every rectangle edge
\* into blocks of one colour each: [x, y, area, color].
RegionBlocks(img, xa, ya, xb, yb) ==
  LET n  == Len(img.rects)
      XB == {xa, xb} \cup {v \in {img.rects[i].x0 : i \in 1..n}
                                  \cup {img.rects[i].x1 + 1 : i \in 1..n} :
                            xa < v /\ v < xb}
      YB == {ya, yb} \cup {v \in {img.rects[i].y0 : i \in 1..n}
                                  \cup {img.rects[i].y1 + 1 : i \in 1..n} :
                            ya < v /\ v < yb}
  IN  { [x |-> x, y |-> y,
         area |-> (NextIn(XB, x) - x) * (NextIn(YB, y) - y),
         color |-> PixelAt(img, x, y)] :
        x \in XB \ {xb}, y \in YB \ {yb} }

\* The sum of channel k over the blocks.
RECURSIVE ChannelSum(_, _)
ChannelSum(blocks, k) ==
  IF blocks = {} THEN 0
  ELSE LET b == CHOOSE b \in blocks : TRUE
       IN  b.color[k] * b.area + ChannelSum(blocks \ {b}, k)

\* average_color_of_region (lines 76-82): the slice npimg[top:top+h,
\* left:left+w] stops at the array's edge; an empty slice gives (0, 0, 0);
\* otherwise the per-channel mean, truncated by int().
average_color_of_region(npimg, left, top, w, h) ==
  LET xa == Min2(left, npimg.w)
      xb == Min2(left + w, npimg.w)
      ya == Min2(top, npimg.h)
      yb == Min2(top + h, npimg.h)
  IN  IF xb <= xa \/ yb <= ya THEN <<0, 0, 0>>
      ELSE LET blocks == RegionBlocks(npimg, xa, ya, xb, yb)
               count  == (xb - xa) * (yb - ya)
           IN  <<ChannelSum(blocks, 1) \div count,
                 ChannelSum(blocks, 2) \div count,
                 ChannelSum(blocks, 3) \div count>>

\* ------------------------------------------------------------------ state

VARIABLES
  \* nearest_palette_label called on its own
  nl_rgb,            \* the argument
  nl_label,          \* the return value, None before the call returns
  \* compute_cell_grid called on its own
  cg_cols,           \* the argument
  cg_result,         \* what the call did: pending, then the triple or the error
  \* resize_and_crop_to_page called on its own
  rz_src,            \* im.size
  rz_result,         \* the geometry the call computed, pending before it
  \* generate_mosaic_pages
  pc,                \* the statement the call is at
  pil_img,           \* the argument: [w, h, solid, color]
  grid_cols,         \* the argument
  use_truetype_font, \* the argument
  font_env,          \* the file system: which candidates exist, which loads succeed
  im,                \* the normalised image (npimg is the same raster)
  cell_w, cols, rows,
  label_grid, row_labels,
  r, c,              \* the loop indices
  sampled,           \* the regions passed to average_color_of_region, in order
  solution,          \* the solution page
  puzzle,            \* the cells drawn on the puzzle page, in order
  font,
  font_i,            \* the index of p in possible_fonts
  tried,             \* the names ImageFont.truetype was called with, in order
  raised,            \* the exception that left the call, None while none has
  \* one run of the Streamlit script
  ui_pc,             \* the statement the script is at
  ui_in,             \* the widgets: a file uploaded, the slider, the button
  downloads,         \* the download buttons shown: file names
  messages,          \* the st.error and st.warning boxes shown, in order
  ui_log             \* what each step of the run did, in order

nlVars == <<nl_rgb, nl_label>>

cgVars == <<cg_cols, cg_result>>

rzVars == <<rz_src, rz_result>>

genArgs == <<pil_img, grid_cols, use_truetype_font, font_env>>

gridVars == <<cell_w, cols, rows>>

labelVars == <<label_grid, row_labels, sampled>>

fontVars == <<font, font_i, tried>>

genVars == <<pc, genArgs, im, gridVars, labelVars, r, c, solution, puzzle,
             fontVars, raised>>

uiVars == <<ui_pc, ui_in, downloads, messages, ui_log>>

vars == <<nlVars, cgVars, rzVars, genVars, uiVars>>

\* Not called on its own in this run.
nlIdle == nl_rgb = <<0, 0, 0>> /\ nl_label = None

cgPending == [error |-> "pending", cell_w |-> 0, cols |-> 0, rows |-> 0]

cgIdle == cg_cols = 0 /\ cg_result = cgPending

rzPending == [new_w |-> 0, new_h |-> 0, left |-> 0, top |-> 0,
              right |-> 0, bottom |-> 0, out_w |-> 0, out_h |-> 0]

rzIdle == rz_src = <<0, 0>> /\ rz_result = rzPending

uiIdle ==
  /\ ui_pc = "idle"
  /\ ui_in = [uploaded |-> FALSE, grid_cols |-> 60, clicked |-> FALSE]
  /\ downloads = {}
  /\ messages = <<>>
  /\ ui_log = <<>>

\* ------------------------------------------------- generate_mosaic_pages

possible_fonts ==
  << "/usr/share/fonts/truetype/dejavu/DejaVuSans-Bold.ttf",
     "/usr/share/fonts/truetype/liberation/LiberationSans-Bold.ttf",
     "/Library/Fonts/Arial.ttf",
     "C:\\Windows\\Fonts\\arial.ttf" >>

GenericFont == "DejaVuSans-Bold.ttf"

NoFont == [kind |-> "None", file |-> "", size |-> 0]

\* ImageFont.truetype(file, size)
TrueType(file, size) == [kind |-> "truetype", file |-> file, size |-> size]

\* ImageFont.load_default()
DefaultFont == [kind |-> "default", file |-> "", size |-> 0]

\* max(10, int(cell_w * NUMBER_FONT_SIZE_FACTOR)), the factor being 0.6
\* (line 176).
FontSize(cw) == Max2(10, (cw * 6) \div 10)

\* left = c * cell_w, top = r * cell_w (lines 151, 153, 163, 165, 203, 205).
CellOrigin(i, cw) == i * cw

\* A slip in line 169: the exclusive corner, one pixel too far each way.
CellBoxExclusive(left, top, cw) == <<left, top, left + cw, top + cw>>

\* [left, top, left + cell_w - 1, top + cell_w - 1] (lines 169, 207, 209).
CellBox(left, top, cw) == <<left, top, left + cw - 1, top + cw - 1>>

\* A slip in line 166: the row's first label for every cell of the row.
SolutionFillFirstColumn(grid, row, col) == PaletteColor(grid[row + 1][1])

\* color = PALETTE[label_grid[r][c]] (lines 166-167).
SolutionFill(grid, row, col) == PaletteColor(grid[row + 1][col + 1])

\* A missing break in line 189: the loop goes on to the next candidate.
AfterLoadedNoBreak(i) ==
  IF i + 1 > Len(possible_fonts) THEN <<"font_generic", i>>
  ELSE <<"font_loop", i + 1>>

\* The break of line 189: on to line 192.
AfterLoaded(i) == <<"font_generic", i>>

\* What Image.resize(..., LANCZOS) and crop() make of the source, as far as
\* this model follows it: a source of one colour gives a page of that colour;
\* any other source gives some raster, here one of a few two-colour pages
\* (colour a, with colour b from (SplitX, SplitY) to the far corner).
TestColors ==
  << <<255, 0, 0>>, <<40, 40, 40>>, <<64, 160, 64>>, <<255, 255, 255>>,
     <<0, 0, 250>>, <<250, 250, 0>> >>

\* The first NumColors of TestColors are used.
NumColors == 3

Colors == {TestColors[i] : i \in 1..Min2(NumColors, Len(TestColors))}

SplitX == 1000

SplitY == 1500

ResampledContents(src, geom) ==
  IF src.solid
  THEN {NewImage(geom.out_w, geom.out_h, src.color)}
  ELSE {DrawRectangle(NewImage(geom.out_w, geom.out_h, ab[1]),
                      SplitX, SplitY, geom.out_w - 1, geom.out_h - 1, ab[2]) :
        ab \in {q \in Colors \X Colors : q[1] # q[2]}}

\* resize_and_crop_to_page (lines 53-62): the images it can return.
resize_and_crop_to_page(src) ==
  UNION {ResampledContents(src, geom) : geom \in ResizeGeometry(src.w, src.h)}

\* Column counts 1..MaxSmallCols are all tried.
MaxSmallCols == 4

\* The column counts tried: the small ones, 10, the slider's least, and the
\* two nearest degenerate ones.
GenCols == (1..MaxSmallCols) \cup {10, 20} \cup {0, PAGE_WIDTH + 1}

GenSources ==
  {[w |-> 100, h |-> 100, solid |-> TRUE, color |-> col] : col \in Colors}
  \cup {[w |-> 640, h |-> 480, solid |-> FALSE, color |-> <<0, 0, 0>>]}

FontEnvs ==
  [exists : [1..Len(possible_fonts) -> BOOLEAN],
   loads : [1..Len(possible_fonts) -> BOOLEAN],
   generic : BOOLEAN]

\* The usual machine: the first candidate is there and loads.
PlainFontEnv ==
  [exists |-> [i \in 1..Len(possible_fonts) |-> i = 1],
   loads |-> [i \in 1..Len(possible_fonts) |-> TRUE],
   generic |-> FALSE]

genIdle ==
  /\ pc = "idle"
  /\ pil_img = [w |-> 1, h |-> 1, solid |-> TRUE, color |-> <<0, 0, 0>>]
  /\ grid_cols = 0
  /\ use_truetype_font = TRUE
  /\ font_env = PlainFontEnv
  /\ im = NoImage
  /\ cell_w = 0 /\ cols = 0 /\ rows = 0
  /\ label_grid = <<>> /\ row_labels = <<>> /\ sampled = <<>>
  /\ r = 0 /\ c = 0
  /\ solution = NoImage
  /\ puzzle = <<>>
  /\ font = NoFont /\ font_i = 0 /\ tried = <<>>
  /\ raised = None

\* A source of each palette colour.
PaletteSources ==
  {[w |-> 100, h |-> 100, solid |-> TRUE, color |-> PALETTE[i][2]] :
   i \in 1..Len(PALETTE)}

\* The call is entered: every source and column count on the usual machine,
\* a source of each palette colour with two columns, and every font
\* environment for one source.
InitMosaic ==
  /\ pc = "resize"
  /\ \/ /\ pil_img \in GenSources
        /\ grid_cols \in GenCols
        /\ use_truetype_font = TRUE
        /\ font_env = PlainFontEnv
     \/ /\ pil_img \in PaletteSources
        /\ grid_cols = 2
        /\ use_truetype_font = TRUE
        /\ font_env = PlainFontEnv
     \/ /\ pil_img = [w |-> 100, h |-> 100, solid |-> TRUE, color |-> TestColors[1]]
        /\ grid_cols = 1
        /\ use_truetype_font \in BOOLEAN
        /\ font_env \in FontEnvs
  /\ im = NoImage
  /\ cell_w = 0 /\ cols = 0 /\ rows = 0
  /\ label_grid = <<>> /\ row_labels = <<>> /\ sampled = <<>>
  /\ r = 0 /\ c = 0
  /\ solution = NoImage
  /\ puzzle = <<>>
  /\ font = NoFont /\ font_i = 0 /\ tried = <<>>
  /\ raised = None
  /\ nlIdle /\ cgIdle /\ rzIdle /\ uiIdle

others == <<nlVars, cgVars, rzVars, uiVars>>

\* Line 142: im = resize_and_crop_to_page(pil_img.convert("RGB")).
Normalise ==
  /\ pc = "resize"
  /\ im' \in resize_and_crop_to_page(pil_img)
  /\ pc' = "grid"
  /\ UNCHANGED <<genArgs, gridVars, labelVars, r, c, solution, puzzle,
                 fontVars, raised, others>>

\* Lines 144-148: compute_cell_grid returns; npimg = np.array(im).
GridComputed ==
  /\ pc = "grid"
  /\ LET g == compute_cell_grid(grid_cols)
     IN  /\ g.error = None
         /\ cell_w' = g.cell_w
         /\ cols' = g.cols
         /\ rows' = g.rows
  /\ label_grid' = <<>>
  /\ row_labels' = <<>>
  /\ r' = 0 /\ c' = 0
  /\ pc' = "labels"
  /\ UNCHANGED <<genArgs, im, sampled, solution, puzzle, fontVars, raised, others>>

\* Line 144: compute_cell_grid raises and the exception leaves the call.
GridRejected ==
  /\ pc = "grid"
  /\ LET g == compute_cell_grid(grid_cols)
     IN  /\ g.error # None
         /\ raised' = g.error
  /\ pc' = "raised"
  /\ UNCHANGED <<genArgs, im, gridVars, labelVars, r, c, solution, puzzle,
                 fontVars, others>>

\* Lines 149-160, one cell: its average, its label; at the end of a row the
\* row joins label_grid; after the last row the solution page is created.
LabelCell ==
  /\ pc = "labels"
  /\ LET top   == CellOrigin(r, cell_w)
         left  == CellOrigin(c, cell_w)
         avg   == average_color_of_region(im, left, top, cell_w, cell_w)
         label == nearest_palette_label(avg)
         row   == Append(row_labels, label)
     IN  /\ sampled' = Append(sampled, [left |-> left, top |-> top,
                                        w |-> cell_w, h |-> cell_w])
         /\ IF c + 1 < cols
            THEN /\ row_labels' = row
                 /\ label_grid' = label_grid
                 /\ c' = c + 1 /\ r' = r
                 /\ pc' = pc
                 /\ solution' = solution
            ELSE /\ row_labels' = <<>>
                 /\ label_grid' = Append(label_grid, row)
                 /\ c' = 0
                 /\ IF r + 1 < rows
                    THEN r' = r + 1 /\ pc' = pc /\ solution' = solution
                    ELSE /\ r' = 0
                         /\ pc' = "solution"
                         /\ solution' = NewImage(PAGE_WIDTH, PAGE_HEIGHT, WHITE)
  /\ UNCHANGED <<genArgs, im, gridVars, puzzle, fontVars, raised, others>>

\* Lines 162-173, one cell: its rectangle filled with its label's colour.
SolutionCell ==
  /\ pc = "solution"
  /\ LET box == CellBox(CellOrigin(c, cell_w), CellOrigin(r, cell_w), cell_w)
     IN  solution' = DrawRectangle(solution, box[1], box[2], box[3], box[4],
                                   SolutionFill(label_grid, r, c))
  /\ IF c + 1 < cols
     THEN c' = c + 1 /\ r' = r /\ pc' = pc
     ELSE /\ c' = 0
          /\ IF r + 1 < rows
             THEN r' = r + 1 /\ pc' = pc
             ELSE r' = 0 /\ pc' = "font"
  /\ UNCHANGED <<genArgs, im, gridVars, labelVars, puzzle, fontVars, raised, others>>

\* Lines 172-178: the puzzle page is created; font = None; the candidates are
\* tried only if use_truetype_font.
FontBegin ==
  /\ pc = "font"
  /\ font' = NoFont
  /\ tried' = <<>>
  /\ IF use_truetype_font
     THEN pc' = "font_loop" /\ font_i' = 1
     ELSE pc' = "font_default" /\ font_i' = font_i
  /\ UNCHANGED <<genArgs, im, gridVars, labelVars, r, c, solution, puzzle,
                 raised, others>>

\* After candidate i without a break: the next candidate, or line 192.
AfterCandidate(i) ==
  IF i + 1 > Len(possible_fonts) THEN <<"font_generic", i>>
  ELSE <<"font_loop", i + 1>>

\* Lines 185-187: os.path.exists(p) is false; nothing is loaded.
FontMissing ==
  /\ pc = "font_loop"
  /\ ~font_env.exists[font_i]
  /\ pc' = AfterCandidate(font_i)[1]
  /\ font_i' = AfterCandidate(font_i)[2]
  /\ UNCHANGED <<genArgs, im, gridVars, labelVars, r, c, solution, puzzle,
                 font, tried, raised, others>>

\* Lines 187-189: p exists and ImageFont.truetype(p, font_size) returns.
FontLoaded ==
  /\ pc = "font_loop"
  /\ font_env.exists[font_i]
  /\ font_env.loads[font_i]
  /\ font' = TrueType(possible_fonts[font_i], FontSize(cell_w))
  /\ tried' = Append(tried, possible_fonts[font_i])
  /\ pc' = AfterLoaded(font_i)[1]
  /\ font_i' = AfterLoaded(font_i)[2]
  /\ UNCHANGED <<genArgs, im, gridVars, labelVars, r, c, solution, puzzle,
                 raised, others>>

\* Lines 188-191: p exists and ImageFont.truetype raises; font = None.
FontLoadFails ==
  /\ pc = "font_loop"
  /\ font_env.exists[font_i]
  /\ ~font_env.loads[font_i]
  /\ font' = NoFont
  /\ tried' = Append(tried, possible_fonts[font_i])
  /\ pc' = AfterCandidate(font_i)[1]
  /\ font_i' = AfterCandidate(font_i)[2]
  /\ UNCHANGED <<genArgs, im, gridVars, labelVars, r, c, solution, puzzle,
                 raised, others>>

\* Line 192: a font was found; the generic name is not tried.
FontGenericSkipped ==
  /\ pc = "font_generic"
  /\ font # NoFont
  /\ pc' = "font_default"
  /\ UNCHANGED <<genArgs, im, gridVars, labelVars, r, c, solution, puzzle,
                 fontVars, raised, others>>

\* Lines 192-195: no font yet and the generic name loads.
FontGenericLoaded ==
  /\ pc = "font_generic"
  /\ font = NoFont
  /\ font_env.generic
  /\ font' = TrueType(GenericFont, FontSize(cell_w))
  /\ tried' = Append(tried, GenericFont)
  /\ pc' = "font_default"
  /\ UNCHANGED <<genArgs, im, gridVars, labelVars, r, c, solution, puzzle,
                 font_i, raised, others>>

\* Lines 192-197: no font yet and the generic name raises; font = None.
FontGenericFails ==
  /\ pc = "font_generic"
  /\ font = NoFont
  /\ ~font_env.generic
  /\ font' = NoFont
  /\ tried' = Append(tried, GenericFont)
  /\ pc' = "font_default"
  /\ UNCHANGED <<genArgs, im, gridVars, labelVars, r, c, solution, puzzle,
                 font_i, raised, others>>

\* Lines 199-200: font is None, so the built-in font is loaded.
FontDefaulted ==
  /\ pc = "font_default"
  /\ font = NoFont
  /\ font' = DefaultFont
  /\ pc' = "puzzle"
  /\ UNCHANGED <<genArgs, im, gridVars, labelVars, r, c, solution, puzzle,
                 font_i, tried, raised, others>>

\* Line 199: a font is there already.
FontKept ==
  /\ pc = "font_default"
  /\ font # NoFont
  /\ pc' = "puzzle"
  /\ UNCHANGED <<genArgs, im, gridVars, labelVars, r, c, solution, puzzle,
                 fontVars, raised, others>>

\* Lines 202-218, one cell: its white rectangle, its outline and its label in
\* the font; after the last cell the two pages are returned.
PuzzleCell ==
  /\ pc = "puzzle"
  /\ puzzle' = Append(puzzle,
       [box |-> CellBox(CellOrigin(c, cell_w), CellOrigin(r, cell_w), cell_w),
        text |-> label_grid[r + 1][c + 1], font |-> font])
  /\ IF c + 1 < cols
     THEN c' = c + 1 /\ r' = r /\ pc' = pc
     ELSE /\ c' = 0
          /\ IF r + 1 < rows
             THEN r' = r + 1 /\ pc' = pc
             ELSE r' = 0 /\ pc' = "done"
  /\ UNCHANGED <<genArgs, im, gridVars, labelVars, solution, fontVars, raised, others>>

NextMosaic ==
  \/ Normalise
  \/ GridComputed
  \/ GridRejected
  \/ LabelCell
  \/ SolutionCell
  \/ FontBegin
  \/ FontMissing
  \/ FontLoaded
  \/ FontLoadFails
  \/ FontGenericSkipped
  \/ FontGenericLoaded
  \/ FontGenericFails
  \/ FontDefaulted
  \/ FontKept
  \/ PuzzleCell

SpecMosaic == InitMosaic /\ [][NextMosaic]_vars

\* ------------------------------------------- nearest_palette_label alone

\* Channel values below this are all tried.
MaxLow == 3

\* The channel values tried: a coarse sweep of 0..255 and the lowest values.
ChannelSamples == {16 * i : i \in 0..15} \cup {255} \cup (0..MaxLow)

InitPalette ==
  /\ nl_rgb \in ChannelSamples \X ChannelSamples \X ChannelSamples
  /\ nl_label = None
  /\ cgIdle /\ rzIdle /\ genIdle /\ uiIdle

\* Lines 38-51: the call returns.
NearestReturn ==
  /\ nl_label = None
  /\ nl_label' = nearest_palette_label(nl_rgb)
  /\ UNCHANGED <<nl_rgb, cgVars, rzVars, genVars, uiVars>>

NextPalette == NearestReturn

SpecPalette == InitPalette /\ [][NextPalette]_vars

\* ----------------------------------------------- compute_cell_grid alone

\* Column counts down to -MaxUnder and up to PAGE_WIDTH + MaxOver are tried.
MaxUnder == 3

MaxOver == 3

InitGrid ==
  /\ cg_cols \in (0 - MaxUnder)..(PAGE_WIDTH + MaxOver)
  /\ cg_result = cgPending
  /\ nlIdle /\ rzIdle /\ genIdle /\ uiIdle

\* Line 74: the triple is returned.
GridReturn ==
  /\ cg_result = cgPending
  /\ compute_cell_grid(cg_cols).error = None
  /\ cg_result' = compute_cell_grid(cg_cols)
  /\ UNCHANGED <<cg_cols, nlVars, rzVars, genVars, uiVars>>

\* Lines 67, 70, 73: ValueError.
GridRaise ==
  /\ cg_result = cgPending
  /\ compute_cell_grid(cg_cols).error # None
  /\ cg_result' = compute_cell_grid(cg_cols)
  /\ UNCHANGED <<cg_cols, nlVars, rzVars, genVars, uiVars>>

NextGrid == GridReturn \/ GridRaise

SpecGrid == InitGrid /\ [][NextGrid]_vars

\* ----------------------------------------- resize_and_crop_to_page alone

\* Source widths and heights 1..MaxSrc are all tried.
MaxSrc == 8

\* The source sides tried: the small ones, and sides around and above the page's.
SrcSides == (1..MaxSrc) \cup {100, 640, 2550, 3300, 5100, 7000}

InitResize ==
  /\ rz_src \in SrcSides \X SrcSides
  /\ rz_result = rzPending
  /\ nlIdle /\ cgIdle /\ genIdle /\ uiIdle

\* Lines 55-62.
ResizeReturn ==
  /\ rz_result = rzPending
  /\ rz_result' \in ResizeGeometry(rz_src[1], rz_src[2])
  /\ UNCHANGED <<rz_src, nlVars, cgVars, genVars, uiVars>>

NextResize == ResizeReturn

SpecResize == InitResize /\ [][NextResize]_vars

\* ------------------------------------------------- the Streamlit script

SliderMin == 20

SliderMax == 200

\* Every exception in the handler ends in the outer except clause: what the
\* handler would be without the try of line 269.
CatchingClauseOuterOnly(stage) == "outer"

\* The except clause that catches an exception raised at a stage of the
\* handler: the PDF export has its own (lines 269-279), everything else falls
\* to the outer one (lines 281-283).
CatchingClause(stage) == IF stage = "pdf" THEN "inner" ELSE "outer"

\* The box an except clause shows (lines 278, 282).
Caught(stage) ==
  IF CatchingClause(stage) = "inner"
  THEN [kind |-> "warning",
        text |-> "Multi-page PDF export failed; offering PNGs instead. See console for details."]
  ELSE [kind |-> "error",
        text |-> "An error occurred while generating the mosaic. Full traceback:"]

\* One run of the script: a file uploaded or not, the slider somewhere in its
\* range, the button clicked or not.
InitUI ==
  /\ ui_pc = "upload"
  /\ ui_in \in [uploaded : BOOLEAN, grid_cols : SliderMin..SliderMax, clicked : BOOLEAN]
  /\ downloads = {}
  /\ messages = <<>>
  /\ ui_log = <<>>
  /\ nlIdle /\ cgIdle /\ rzIdle /\ genIdle

uiOthers == <<nlVars, cgVars, rzVars, genVars>>

\* Line 237: no file, nothing to do.
NoUpload ==
  /\ ui_pc = "upload"
  /\ ~ui_in.uploaded
  /\ ui_pc' = "end"
  /\ UNCHANGED <<ui_in, downloads, messages, ui_log, uiOthers>>

\* Lines 238-247: Image.open returns; the original is shown.
OpenReturns ==
  /\ ui_pc = "upload"
  /\ ui_in.uploaded
  /\ ui_log' = Append(ui_log, "open_ok")
  /\ ui_pc' = "button"
  /\ UNCHANGED <<ui_in, downloads, messages, uiOthers>>

\* Lines 240-245: Image.open raises; input_image = None.
OpenRaises ==
  /\ ui_pc = "upload"
  /\ ui_in.uploaded
  /\ ui_log' = Append(ui_log, "open_raised")
  /\ messages' = Append(messages, [kind |-> "error", text |-> "Can't open uploaded image."])
  /\ ui_pc' = "end"
  /\ UNCHANGED <<ui_in, downloads, uiOthers>>

\* Line 249: the button was not clicked in this run.
NotClicked ==
  /\ ui_pc = "button"
  /\ ~ui_in.clicked
  /\ ui_pc' = "end"
  /\ UNCHANGED <<ui_in, downloads, messages, ui_log, uiOthers>>

\* Lines 249-258: generate_mosaic_pages returns and both pages are shown.
GenerateReturns ==
  /\ ui_pc = "button"
  /\ ui_in.clicked
  /\ compute_cell_grid(ui_in.grid_cols).error = None
  /\ ui_log' = Append(ui_log, "generate_ok")
  /\ ui_pc' = "puzzle_png"
  /\ UNCHANGED <<ui_in, downloads, messages, uiOthers>>

\* Lines 252, 281-283: generate_mosaic_pages raises (the grid error, or any
\* exception of the imaging library).
GenerateRaises ==
  /\ ui_pc = "button"
  /\ ui_in.clicked
  /\ ui_log' = Append(ui_log, "generate_raised")
  /\ messages' = Append(messages, Caught("generate"))
  /\ ui_pc' = "end"
  /\ UNCHANGED <<ui_in, downloads, uiOthers>>

\* Line 261: the puzzle page is encoded.
PuzzlePngReturns ==
  /\ ui_pc = "puzzle_png"
  /\ ui_log' = Append(ui_log, "puzzle_png_ok")
  /\ ui_pc' = "solution_png"
  /\ UNCHANGED <<ui_in, downloads, messages, uiOthers>>

\* Lines 261, 281-283: encoding the puzzle page raises.
PuzzlePngRaises ==
  /\ ui_pc = "puzzle_png"
  /\ ui_log' = Append(ui_log, "puzzle_png_raised")
  /\ messages' = Append(messages, Caught("puzzle_png"))
  /\ ui_pc' = "end"
  /\ UNCHANGED <<ui_in, downloads, uiOthers>>

\* Lines 262-266: the solution page is encoded and both PNG buttons are shown.
SolutionPngReturns ==
  /\ ui_pc = "solution_png"
  /\ ui_log' = Append(ui_log, "solution_png_ok")
  /\ downloads' = downloads \cup {"mosaic_puzzle.png", "mosaic_solution.png"}
  /\ ui_pc' = "pdf"
  /\ UNCHANGED <<ui_in, messages, uiOthers>>

\* Lines 262, 281-283: encoding the solution page raises.
SolutionPngRaises ==
  /\ ui_pc = "solution_png"
  /\ ui_log' = Append(ui_log, "solution_png_raised")
  /\ messages' = Append(messages, Caught("solution_png"))
  /\ ui_pc' = "end"
  /\ UNCHANGED <<ui_in, downloads, uiOthers>>

\* Lines 269-276: the two-page PDF is written and its button shown.
PdfReturns ==
  /\ ui_pc = "pdf"
  /\ ui_log' = Append(ui_log, "pdf_ok")
  /\ downloads' = downloads \cup {"mosaic_pages.pdf"}
  /\ ui_pc' = "end"
  /\ UNCHANGED <<ui_in, messages, uiOthers>>

\* Lines 272-279: writing the PDF raises.
PdfRaises ==
  /\ ui_pc = "pdf"
  /\ ui_log' = Append(ui_log, "pdf_raised")
  /\ messages' = Append(messages, Caught("pdf"))
  /\ ui_pc' = "end"
  /\ UNCHANGED <<ui_in, downloads, uiOthers>>

NextUI ==
  \/ NoUpload
  \/ OpenReturns
  \/ OpenRaises
  \/ NotClicked
  \/ GenerateReturns
  \/ GenerateRaises
  \/ PuzzlePngReturns
  \/ PuzzlePngRaises
  \/ SolutionPngReturns
  \/ SolutionPngRaises
  \/ PdfReturns
  \/ PdfRaises

SpecUI == InitUI /\ [][NextUI]_vars

\* ------------------------------------------------------------------ claims

Dist(i, rgb) == SqDist(PALETTE[i][2], rgb)

\* The place of a key in PALETTE's iteration order.
KeyIndex(k) == CHOOSE i \in 1..Len(PALETTE) : PALETTE[i][1] = k

\* C1: nearest_palette_label returns a key of PALETTE whose colour is at the
\* least squared distance from the argument, and every entry before it in
\* PALETTE's order is strictly farther (the first minimal entry wins).
C1_NearestFirstMinimal ==
  nl_label # None =>
    /\ nl_label \in PaletteKeys
    /\ \A j \in 1..Len(PALETTE) : Dist(KeyIndex(nl_label), nl_rgb) <= Dist(j, nl_rgb)
    /\ \A j \in 1..(KeyIndex(nl_label) - 1) :
         Dist(j, nl_rgb) > Dist(KeyIndex(nl_label), nl_rgb)

\* The call has returned for an argument at the same least distance from two
\* entries ("1" and "2" for (32, 32, 32)), and the earlier one came back.
C1_Witness ==
  /\ nl_rgb = <<32, 32, 32>>
  /\ nl_label = "1"
  /\ Dist(1, nl_rgb) = Dist(2, nl_rgb)

\* C2: for cols in 10..200 (the slider's 20..200 included), compute_cell_grid
\* returns (cellSize, cols, rows) with cellSize = W div cols, rows = H div
\* cellSize, both >= 1, and the grid footprint inside the page.
C2_GridInRange ==
  (cg_result # cgPending /\ cg_cols \in 10..200) =>
    /\ cg_result.error = None
    /\ cg_result.cols = cg_cols
    /\ cg_result.cell_w = PAGE_WIDTH \div cg_cols
    /\ cg_result.rows = PAGE_HEIGHT \div cg_result.cell_w
    /\ cg_result.cell_w >= 1
    /\ cg_result.rows >= 1
    /\ cg_result.cell_w * cg_result.cols <= PAGE_WIDTH
    /\ cg_result.cell_w * cg_result.rows <= PAGE_HEIGHT

\* The call has returned for cols = 200, where the footprint is narrower than
\* the page (cellSize 12: 2400 of 2550 pixels).
C2_Witness ==
  /\ cg_cols = 200
  /\ cg_result.error = None
  /\ cg_result.cell_w * cg_result.cols < PAGE_WIDTH

\* C3: compute_cell_grid raises exactly when cols < 1, or W div cols < 1, or
\* H div (W div cols) < 1, and otherwise returns the triple; every cols above
\* the page width is rejected.
C3_RaisesExactlyWhenDegenerate ==
  cg_result # cgPending =>
    /\ (cg_result.error # None) <=>
         (\/ cg_cols < 1
          \/ PAGE_WIDTH \div cg_cols < 1
          \/ PAGE_HEIGHT \div (PAGE_WIDTH \div cg_cols) < 1)
    /\ cg_result.error = None =>
         cg_result = [error |-> None, cell_w |-> PAGE_WIDTH \div cg_cols,
                      cols |-> cg_cols,
                      rows |-> PAGE_HEIGHT \div (PAGE_WIDTH \div cg_cols)]
    /\ cg_cols > PAGE_WIDTH => cg_result.error # None

\* The call has raised for the first cols above the page width.
C3_Witness ==
  /\ cg_cols = PAGE_WIDTH + 1
  /\ cg_result.error = "grid_cols too large for page width"

\* C4: when cols is above the page width, the grid error leaves
\* generate_mosaic_pages before the normalisation has run: no normalised
\* image exists when the error is raised.
C4_ErrorBeforeNormalisation ==
  (pc = "raised" /\ grid_cols > PAGE_WIDTH) => im = NoImage

\* The reducer run again on the solution page, for cell (rr, cc) of the grid.
Rereduce(rr, cc) ==
  nearest_palette_label(
    average_color_of_region(solution, CellOrigin(cc, cell_w),
                            CellOrigin(rr, cell_w), cell_w, cell_w))

\* C5: when generate_mosaic_pages returns, the reducer run on the solution
\* page with the same grid gives label_grid again, cell for cell.
C5_Idempotent ==
  pc = "done" =>
    \A rr \in 0..(rows - 1), cc \in 0..(cols - 1) :
      Rereduce(rr, cc) = label_grid[rr + 1][cc + 1]

\* A run with cols = 10 has returned a grid of more than one label, and the
\* last cell reduces to its own label again.
C5_Witness ==
  /\ pc = "done"
  /\ grid_cols = 10
  /\ label_grid[1][1] # label_grid[rows][cols]
  /\ Rereduce(rows - 1, cols - 1) = label_grid[rows][cols]

\* The colours of the pixels x in xa..xb-1, y in ya..yb-1.
RegionColors(img, xa, ya, xb, yb) ==
  {b.color : b \in RegionBlocks(img, xa, ya, xb, yb)}

RED == <<255, 0, 0>>

\* The scenario of C6: a 100 x 100 source of (255, 0, 0), cols = 10.
RedScenario ==
  /\ pil_img = [w |-> 100, h |-> 100, solid |-> TRUE, color |-> RED]
  /\ grid_cols = 10

\* Every entry of label_grid is k, in rows of `cols` entries.
AllLabels(k) ==
  /\ Len(label_grid) = rows
  /\ \A i \in 1..Len(label_grid) :
       /\ Len(label_grid[i]) = cols
       /\ \A j \in 1..cols : label_grid[i][j] = k

\* C6 as stated: in the scenario the grid has 10 columns, every label is
\* "A", and every pixel of the 2550 x 3300 solution page is (255, 0, 0).
C6_WholePageRed ==
  (pc = "done" /\ RedScenario) =>
    /\ cols = 10
    /\ AllLabels("A")
    /\ RegionColors(solution, 0, 0, PAGE_WIDTH, PAGE_HEIGHT) = {RED}

\* C6 amended: in the scenario the grid has 10 columns and 12 rows of
\* 255-pixel cells, every label is "A", every pixel of the grid footprint
\* (2550 x 3060) is (255, 0, 0), and the 240 rows below it are white.
C6_FootprintRed ==
  (pc = "done" /\ RedScenario) =>
    /\ cols = 10 /\ rows = 12 /\ cell_w = 255
    /\ AllLabels("A")
    /\ RegionColors(solution, 0, 0, cell_w * cols, cell_w * rows) = {RED}
    /\ RegionColors(solution, 0, cell_w * rows, PAGE_WIDTH, PAGE_HEIGHT) = {WHITE}
    /\ PixelAt(solution, PAGE_WIDTH - 1, cell_w * rows - 1) = RED
    /\ PixelAt(solution, 0, cell_w * rows) = WHITE

\* The scenario has run to its return with all 120 cells drawn.
C6_Witness ==
  /\ pc = "done"
  /\ RedScenario
  /\ Len(solution.rects) = 120
  /\ label_grid[12][10] = "A"

\* C7: the resized image covers the page and the crop box lies inside it, so
\* the output is PAGE_WIDTH x PAGE_HEIGHT with no pixel from outside the
\* resized image.
C7_CoverFit ==
  rz_result # rzPending =>
    /\ rz_result.new_w >= PAGE_WIDTH
    /\ rz_result.new_h >= PAGE_HEIGHT
    /\ 0 <= rz_result.left
    /\ rz_result.left + PAGE_WIDTH <= rz_result.new_w
    /\ 0 <= rz_result.top
    /\ rz_result.top + PAGE_HEIGHT <= rz_result.new_h
    /\ rz_result.right = rz_result.left + PAGE_WIDTH
    /\ rz_result.bottom = rz_result.top + PAGE_HEIGHT
    /\ rz_result.out_w = PAGE_WIDTH
    /\ rz_result.out_h = PAGE_HEIGHT

\* A 7 x 8 source: scale 3300/8, resized width 7 * 412.5 rounded, cropped on
\* the left and right.
C7_Witness ==
  /\ rz_src = <<7, 8>>
  /\ rz_result.new_h = PAGE_HEIGHT
  /\ rz_result.new_w > PAGE_WIDTH
  /\ rz_result.left > 0

InLog(e) == \E i \in 1..Len(ui_log) : ui_log[i] = e

Shown(kind) == \E i \in 1..Len(messages) : messages[i].kind = kind

\* C8: a run in which generate_mosaic_pages and both PNG encodings succeeded
\* ends with both PNG buttons shown, whether the PDF export succeeded or not;
\* when it failed the run shows a warning and no error, and no PDF button.
C8_PdfFailureNotFatal ==
  (ui_pc = "end" /\ InLog("generate_ok") /\ InLog("puzzle_png_ok")
     /\ InLog("solution_png_ok")) =>
    /\ {"mosaic_puzzle.png", "mosaic_solution.png"} \subseteq downloads
    /\ InLog("pdf_ok") \/ InLog("pdf_raised")
    /\ InLog("pdf_raised") =>
         /\ Shown("warning")
         /\ ~Shown("error")
         /\ "mosaic_pages.pdf" \notin downloads
    /\ InLog("pdf_ok") =>
         /\ messages = <<>>
         /\ "mosaic_pages.pdf" \in downloads

\* A run has ended after the PDF export failed, with both PNG buttons shown.
C8_Witness ==
  /\ ui_pc = "end"
  /\ InLog("pdf_raised")
  /\ downloads = {"mosaic_puzzle.png", "mosaic_solution.png"}

\* The place of cell (rr, cc) in drawing order.
CellIndex(rr, cc) == rr * cols + cc + 1

RectArea(rc) == (rc.x1 - rc.x0 + 1) * (rc.y1 - rc.y0 + 1)

RectsDisjoint(a, b) ==
  a.x1 < b.x0 \/ b.x1 < a.x0 \/ a.y1 < b.y0 \/ b.y1 < a.y0

RECURSIVE AreaSum(_, _)
AreaSum(rects, i) ==
  IF i > Len(rects) THEN 0 ELSE RectArea(rects[i]) + AreaSum(rects, i + 1)

\* How many of the solution page's rectangles hold pixel (x, y).
CoverCount(x, y) ==
  Cardinality({i \in 1..Len(solution.rects) : InRect(solution.rects[i], x, y)})

\* C9: when generate_mosaic_pages returns, the rectangle of cell (r, c) is
\* x in c*cellSize .. c*cellSize+cellSize-1, y in r*cellSize ..
\* r*cellSize+cellSize-1; the rectangles lie in the footprint, which lies in
\* the page, no two of them meet, and their areas add up to the footprint's
\* (so each pixel of the footprint is in exactly one, as the corner pixels
\* of every cell are seen to be); the region averaged for a cell is the
\* pixel set of its rectangle.
C9_SeamlessTiling ==
  pc = "done" =>
    /\ Len(solution.rects) = rows * cols
    /\ Len(sampled) = rows * cols
    /\ cell_w * cols <= PAGE_WIDTH
    /\ cell_w * rows <= PAGE_HEIGHT
    /\ \A rr \in 0..(rows - 1), cc \in 0..(cols - 1) :
         LET rc == solution.rects[CellIndex(rr, cc)]
             sm == sampled[CellIndex(rr, cc)]
         IN  /\ rc.x0 = cc * cell_w
             /\ rc.x1 = cc * cell_w + cell_w - 1
             /\ rc.y0 = rr * cell_w
             /\ rc.y1 = rr * cell_w + cell_w - 1
             /\ 0 <= rc.x0 /\ rc.x1 < cell_w * cols
             /\ 0 <= rc.y0 /\ rc.y1 < cell_w * rows
             /\ sm.left = rc.x0
             /\ Min2(sm.left + sm.w, im.w) - 1 = rc.x1
             /\ sm.top = rc.y0
             /\ Min2(sm.top + sm.h, im.h) - 1 = rc.y1
             /\ CoverCount(rc.x0, rc.y0) = 1
             /\ CoverCount(rc.x1, rc.y0) = 1
             /\ CoverCount(rc.x0, rc.y1) = 1
             /\ CoverCount(rc.x1, rc.y1) = 1
    /\ \A i \in 1..Len(solution.rects), j \in 1..Len(solution.rects) :
         i < j => RectsDisjoint(solution.rects[i], solution.rects[j])
    /\ AreaSum(solution.rects, 1) = (cell_w * cols) * (cell_w * rows)

\* A run with cols = 4 has returned: 637-pixel cells, a footprint smaller
\* than the page both ways, 20 rectangles.
C9_Witness ==
  /\ pc = "done"
  /\ grid_cols = 4
  /\ cell_w * cols < PAGE_WIDTH
  /\ cell_w * rows < PAGE_HEIGHT
  /\ Len(solution.rects) = 20

\* The candidates that exist and load.
GoodCandidates ==
  {i \in 1..Len(possible_fonts) : font_env.exists[i] /\ font_env.loads[i]}

FirstGood == CHOOSE i \in GoodCandidates : \A j \in GoodCandidates : i <= j

\* The existing candidates 1..n, in list order.
RECURSIVE ExistingUpTo(_)
ExistingUpTo(n) ==
  IF n = 0 THEN <<>>
  ELSE IF font_env.exists[n] THEN Append(ExistingUpTo(n - 1), possible_fonts[n])
       ELSE ExistingUpTo(n - 1)

\* The font the chain must end with, and the loads it must have attempted.
ExpectedFont ==
  IF ~use_truetype_font THEN DefaultFont
  ELSE IF GoodCandidates # {}
       THEN TrueType(possible_fonts[FirstGood], FontSize(cell_w))
       ELSE IF font_env.generic THEN TrueType(GenericFont, FontSize(cell_w))
            ELSE DefaultFont

ExpectedTried ==
  IF ~use_truetype_font THEN <<>>
  ELSE IF GoodCandidates # {} THEN ExistingUpTo(FirstGood)
       ELSE Append(ExistingUpTo(Len(possible_fonts)), GenericFont)

FontSteps == {"font", "font_loop", "font_generic", "font_default"}

\* C10: whatever exists and whatever load raises, the chain always has a next
\* step and raises nothing; the labels are drawn with the first candidate
\* that exists and loads, no later candidate having been tried; failing all
\* candidates, with the generic name if it loads, else with the built-in
\* font; never with None.
C10_FontChain ==
  /\ pc \in FontSteps => (raised = None /\ ENABLED NextMosaic)
  /\ raised # None => (pc = "raised" /\ compute_cell_grid(grid_cols).error # None)
  /\ pc \in {"puzzle", "done"} =>
       /\ font # NoFont
       /\ font = ExpectedFont
       /\ tried = ExpectedTried
  /\ \A i \in 1..Len(puzzle) : puzzle[i].font # NoFont /\ puzzle[i].font = ExpectedFont

\* A run has returned where the first candidate is missing, the second
\* exists and fails to load, and the third and the fourth exist and load: the
\* label was drawn with the third, and the fourth was not tried.
C10_Witness ==
  /\ pc = "done"
  /\ use_truetype_font
  /\ ~font_env.exists[1]
  /\ font_env.exists[2] /\ ~font_env.loads[2]
  /\ font_env.exists[3] /\ font_env.loads[3]
  /\ font_env.exists[4] /\ font_env.loads[4]
  /\ tried = <<possible_fonts[2], possible_fonts[3]>>
  /\ Len(puzzle) = 1
  /\ puzzle[1].font.file = possible_fonts[3]

====
